---- MODULE Spec2Model ----
(***************************************************************************)
(* Batch matching engine of the UTXO limit order book                      *)
(* (crates/orderbook/src/lib.rs, match_orders) and the Merkle set it       *)
(* verifies existing UTXOs against.                                        *)
(*                                                                         *)
(* Hashes are symbolic and collision free: SHA-256 of an order is the      *)
(* tuple of the hashed fields, the hash of two tree nodes is the pair of   *)
(* them.  A 32-byte value is therefore a tuple: an id has six components,  *)
(* an inner node two, the all-zero value one.                              *)
(***************************************************************************)
EXTENDS Integers, Sequences, FiniteSets, TLC

VARIABLES
    input,              \* BatchInput handed to match_orders
    pc,                 \* "intake" | "match" | "done" | "panicked"
    ei,                 \* existing_utxos_with_proofs elements already iterated
    ni,                 \* new_orders elements already iterated
    buy_orders,         \* Vec<OrderEntry>
    sell_orders,        \* Vec<OrderEntry>
    consumed_utxo_ids,  \* Vec<FixedBytes<32>>
    fills,              \* Vec<Fill>
    buy_idx,            \* cursor into buy_orders (0-based, as in the code)
    sell_idx,           \* cursor into sell_orders (0-based)
    new_utxos,          \* Vec<Utxo> of the returned BatchOutput
    new_utxo_merkle_root, \* root of the returned BatchOutput
    prev,               \* BatchOutput of the run before a resubmission, or NoOutput
    gpc,                \* position of the guest's main, "none" without a guest
    sol_input,          \* the ABI-decoded SolBatchInput the guest has read
    contract,           \* state of the OrderBook contract at the Steel block
    on_chain_merkle_root, \* result of the utxoMerkleRoot() call, or Unread
    on_chain_batch_index, \* result of the currentBatchIndex() call, or Unread
    journal             \* journal committed by the guest, or NoJournal

\* State of the guest program around match_orders.
guest == <<gpc, sol_input, contract, on_chain_merkle_root, on_chain_batch_index,
           journal>>

vars == <<input, pc, ei, ni, buy_orders, sell_orders, consumed_utxo_ids, fills,
          buy_idx, sell_idx, new_utxos, new_utxo_merkle_root, prev, guest>>

---------------------------------------------------------------------------
(* Bounds of the explored inputs *)

MaxPrice == 2
MaxQty == 2
MaxNonce == 3
MaxBatch == 1
MaxNew == 3
MaxExisting == 2

Sides == {"Buy", "Sell"}
Owners == {"A", "B"}

---------------------------------------------------------------------------
(* Primitive types and UTXO identity *)

SideByte(side) == IF side = "Buy" THEN 0 ELSE 1

ZERO == <<0>>

compute_utxo_id(order) ==
    <<SideByte(order.side), order.price, order.quantity, order.owner,
      order.nonce, order.expiry_batch>>

UtxoNew(order) == [id |-> compute_utxo_id(order), order |-> order]

\* An order counted as expired in its expiry batch already.
is_expired_in_expiry_batch(utxo, current_batch) ==
    utxo.order.expiry_batch <= current_batch

is_expired(utxo, current_batch) == utxo.order.expiry_batch < current_batch

Min(a, b) == IF a < b THEN a ELSE b

---------------------------------------------------------------------------
(* Merkle set: rs_merkle with SHA-256 nodes, leaves are the ids themselves, *)
(* a node without a right sibling is promoted unchanged.                    *)

MerkleLayer(s) ==
    [i \in 1..((Len(s) + 1) \div 2) |->
        IF 2 * i <= Len(s) THEN <<s[2 * i - 1], s[2 * i]>> ELSE s[2 * i - 1]]

RECURSIVE MerkleRootOf(_)
MerkleRootOf(s) == IF Len(s) = 1 THEN s[1] ELSE MerkleRootOf(MerkleLayer(s))

compute_utxo_merkle_root(utxo_ids) ==
    IF utxo_ids = <<>> THEN ZERO ELSE MerkleRootOf(utxo_ids)

\* Sibling hashes of the leaf at 0-based index idx, leaf layer first.
RECURSIVE generate_utxo_proof(_, _)
generate_utxo_proof(layer, idx) ==
    IF Len(layer) <= 1 THEN <<>>
    ELSE LET sib == IF idx % 2 = 0 THEN idx + 1 ELSE idx - 1
             here == IF sib < Len(layer) THEN <<layer[sib + 1]>> ELSE <<>>
         IN here \o generate_utxo_proof(MerkleLayer(layer), idx \div 2)

\* Depth of a tree of n leaves: 1 for a single leaf, else ceil(log2 n).
RECURSIVE CeilLog2(_)
CeilLog2(n) == IF n <= 1 THEN 0 ELSE 1 + CeilLog2((n + 1) \div 2)

TreeDepth(n) == IF n = 1 THEN 1 ELSE CeilLog2(n)

NoRoot == <<0, 0, 0>>

\* Root rebuilt from one leaf and its proof hashes: on every layer the node
\* takes the next proof hash as its sibling unless it is the unpaired last
\* node of an odd layer; NoRoot when the proof runs out of hashes.
RECURSIVE ProofRoot(_, _, _, _, _)
ProofRoot(node, idx, count, proof, depth) ==
    IF depth = 0 THEN node
    ELSE IF count % 2 = 1 /\ idx = count - 1
         THEN ProofRoot(node, idx \div 2, (count + 1) \div 2, proof, depth - 1)
    ELSE IF proof = <<>> THEN NoRoot
    ELSE LET sib == Head(proof)
             parent == IF idx % 2 = 0 THEN <<node, sib>> ELSE <<sib, node>>
         IN ProofRoot(parent, idx \div 2, (count + 1) \div 2, Tail(proof), depth - 1)

verify(uwp, root, total_leaves) ==
    ProofRoot(uwp.utxo.id, uwp.leaf_index, total_leaves, uwp.proof_hashes,
              TreeDepth(total_leaves)) = root

---------------------------------------------------------------------------
(* Price-time priority comparators and the stable sort of the books *)

CmpU64(a, b) == IF a < b THEN "Less" ELSE IF a = b THEN "Equal" ELSE "Greater"

\* BuyCmp with the nonce tie-break reversed.
BuyCmpNewestFirst(a, b) ==
    LET c == CmpU64(b.order.price, a.order.price)
    IN IF c = "Equal" THEN CmpU64(b.order.nonce, a.order.nonce) ELSE c

BuyCmp(a, b) ==
    LET c == CmpU64(b.order.price, a.order.price)
    IN IF c = "Equal" THEN CmpU64(a.order.nonce, b.order.nonce) ELSE c

\* SellCmp without the nonce tie-break.
SellCmpPriceOnly(a, b) == CmpU64(a.order.price, b.order.price)

SellCmp(a, b) ==
    LET c == CmpU64(a.order.price, b.order.price)
    IN IF c = "Equal" THEN CmpU64(a.order.nonce, b.order.nonce) ELSE c

Cmp(side, a, b) == IF side = "Buy" THEN BuyCmp(a, b) ELSE SellCmp(a, b)

\* x goes before the first element it is strictly less than (stable).
RECURSIVE InsertSorted(_, _, _)
InsertSorted(side, x, s) ==
    IF s = <<>> THEN <<x>>
    ELSE IF Cmp(side, x, Head(s)) = "Less" THEN <<x>> \o s
    ELSE <<Head(s)>> \o InsertSorted(side, x, Tail(s))

RECURSIVE SortFrom(_, _, _)
SortFrom(side, done, rest) ==
    IF rest = <<>> THEN done
    ELSE SortFrom(side, InsertSorted(side, Head(rest), done), Tail(rest))

sort_by(side, s) == SortFrom(side, <<>>, s)

---------------------------------------------------------------------------
(* Inputs *)

SeqsUpTo(S, n) == UNION {[1..k -> S] : k \in 0..n}

OrdersOver(qtys, owners, expiries) ==
    [side : Sides, price : 1..MaxPrice, quantity : qtys, owner : owners,
     nonce : 1..MaxNonce, expiry_batch : expiries]

\* Every field free, zero quantities and expired orders included.
WideOrders == OrdersOver(0..MaxQty, Owners, 0..MaxBatch)
\* Live orders of one owner with a positive quantity.
CoreOrders == OrdersOver(1..MaxQty, {"A"}, {MaxBatch})
\* Orders of the committed UTXO set: one owner, positive quantity, any expiry.
ChainOrders == OrdersOver(1..MaxQty, {"A"}, 0..MaxBatch)

ChainLeaves(chain) == [i \in 1..Len(chain) |-> compute_utxo_id(chain[i])]

\* The element the host builds for the committed UTXO at position p (1-based):
\* apps/src/main.rs, "Build UTXOs with proofs".
HonestElement(chain, p) ==
    [utxo |-> UtxoNew(chain[p]),
     proof_hashes |-> generate_utxo_proof(ChainLeaves(chain), p - 1),
     leaf_index |-> p - 1]

OtherQuantity(order) == [order EXCEPT !.quantity = (MaxQty + 1) - @]

\* The committed id and its proof, with order fields that do not hash to the id.
TamperedElement(chain, p) ==
    [HonestElement(chain, p) EXCEPT !.utxo.order = OtherQuantity(@)]

\* A well-formed UTXO that is not in the committed set, under a borrowed proof.
ForgedElement(chain, p) ==
    [HonestElement(chain, p) EXCEPT !.utxo = UtxoNew(OtherQuantity(chain[p]))]

ReplaceAt(s, p, x) == [s EXCEPT ![p] = x]

\* Lists of existing UTXOs offered against the root of chain: any selection of
\* honest elements (repeated, reordered or left out), or the full honest list
\* with one element tampered with or forged.
ExistingLists(chain) ==
    LET honest == [p \in 1..Len(chain) |-> HonestElement(chain, p)]
    IN {[i \in 1..Len(picks) |-> honest[picks[i]]] :
            picks \in SeqsUpTo(1..Len(chain), MaxExisting)}
       \cup {ReplaceAt(honest, p, TamperedElement(chain, p)) : p \in 1..Len(chain)}
       \cup {ReplaceAt(honest, p, ForgedElement(chain, p)) : p \in 1..Len(chain)}

BatchInput(batch, root, existing, orders) ==
    [batch_index |-> batch, utxo_merkle_root |-> root,
     existing_utxos_with_proofs |-> existing, new_orders |-> orders]

NoOutput == <<>>

Start(in) ==
    /\ input = in
    /\ pc = "intake"
    /\ ei = 0
    /\ ni = 0
    /\ buy_orders = <<>>
    /\ sell_orders = <<>>
    /\ consumed_utxo_ids = <<>>
    /\ fills = <<>>
    /\ buy_idx = 0
    /\ sell_idx = 0
    /\ new_utxos = <<>>
    /\ new_utxo_merkle_root = ZERO

Unread == <<>>

NoJournal == <<>>

\* match_orders called as a library function: no guest program around it.
NoGuest ==
    /\ gpc = "none"
    /\ sol_input = <<>>
    /\ contract = <<>>
    /\ on_chain_merkle_root = Unread
    /\ on_chain_batch_index = Unread
    /\ journal = NoJournal

\* No committed set: up to MaxNew - 1 arbitrary new orders.
InitWide ==
    \E b \in 1..MaxBatch, n \in 0..(MaxNew - 1) :
        \E orders \in [1..n -> WideOrders] :
            Start(BatchInput(b, ZERO, <<>>, orders))

\* No committed set: MaxNew live new orders.
InitDeep ==
    \E b \in 1..MaxBatch :
        \E orders \in [1..MaxNew -> CoreOrders] :
            Start(BatchInput(b, ZERO, <<>>, orders))

\* A committed set of up to MaxExisting UTXOs, with new orders as long as the
\* batch holds at most MaxExisting orders in all.
InitChain ==
    \E b \in 1..MaxBatch, k \in 1..MaxExisting :
        \E chain \in [1..k -> ChainOrders], n \in 0..(MaxExisting - k) :
            \E existing \in ExistingLists(chain), orders \in [1..n -> CoreOrders] :
                Start(BatchInput(b, compute_utxo_merkle_root(ChainLeaves(chain)),
                                 existing, orders))

Init ==
    /\ InitWide \/ InitDeep \/ InitChain
    /\ prev = NoOutput
    /\ NoGuest

---------------------------------------------------------------------------
(* match_orders *)

OrderEntry(utxo) == [utxo_id |-> utxo.id, order |-> utxo.order]

\* The assertion checked on the first element only.
ProofAssertedFirstOnly(utxo_with_proof, utxo_count) ==
    ei > 0 \/ verify(utxo_with_proof, input.utxo_merkle_root, utxo_count)

\* The condition of the assert! on every element of existing_utxos_with_proofs.
ProofAsserted(utxo_with_proof, utxo_count) ==
    verify(utxo_with_proof, input.utxo_merkle_root, utxo_count)

\* One iteration of the loop over existing_utxos_with_proofs.
ProcessExisting ==
    /\ pc = "intake"
    /\ ei < Len(input.existing_utxos_with_proofs)
    /\ LET utxo_count == Len(input.existing_utxos_with_proofs)
           utxo_with_proof == input.existing_utxos_with_proofs[ei + 1]
           utxo == utxo_with_proof.utxo
       IN IF ~ProofAsserted(utxo_with_proof, utxo_count)
          THEN /\ pc' = "panicked"
               /\ UNCHANGED <<ei, buy_orders, sell_orders, consumed_utxo_ids>>
          ELSE /\ pc' = pc
               /\ ei' = ei + 1
               /\ IF is_expired(utxo, input.batch_index)
                  THEN /\ consumed_utxo_ids' = Append(consumed_utxo_ids, utxo.id)
                       /\ UNCHANGED <<buy_orders, sell_orders>>
                  ELSE /\ UNCHANGED consumed_utxo_ids
                       /\ IF utxo.order.side = "Buy"
                          THEN /\ buy_orders' = Append(buy_orders, OrderEntry(utxo))
                               /\ UNCHANGED sell_orders
                          ELSE /\ sell_orders' = Append(sell_orders, OrderEntry(utxo))
                               /\ UNCHANGED buy_orders
    /\ UNCHANGED <<input, ni, fills, buy_idx, sell_idx, new_utxos,
                   new_utxo_merkle_root, prev, guest>>

\* One iteration of the loop over new_orders.
ProcessNew ==
    /\ pc = "intake"
    /\ ei = Len(input.existing_utxos_with_proofs)
    /\ ni < Len(input.new_orders)
    /\ LET order == input.new_orders[ni + 1]
           utxo == UtxoNew(order)
       IN IF order.expiry_batch < input.batch_index
          THEN UNCHANGED <<buy_orders, sell_orders>>
          ELSE IF order.side = "Buy"
               THEN /\ buy_orders' = Append(buy_orders, OrderEntry(utxo))
                    /\ UNCHANGED sell_orders
               ELSE /\ sell_orders' = Append(sell_orders, OrderEntry(utxo))
                    /\ UNCHANGED buy_orders
    /\ ni' = ni + 1
    /\ UNCHANGED <<input, pc, ei, consumed_utxo_ids, fills, buy_idx, sell_idx,
                   new_utxos, new_utxo_merkle_root, prev, guest>>

\* Both books sorted, cursors at the heads.
SortBooks ==
    /\ pc = "intake"
    /\ ei = Len(input.existing_utxos_with_proofs)
    /\ ni = Len(input.new_orders)
    /\ buy_orders' = sort_by("Buy", buy_orders)
    /\ sell_orders' = sort_by("Sell", sell_orders)
    /\ pc' = "match"
    /\ UNCHANGED <<input, ei, ni, consumed_utxo_ids, fills, buy_idx, sell_idx,
                   new_utxos, new_utxo_merkle_root, prev, guest>>

\* The loop left when the prices at the cursors are equal.
LoopStopsAtEqualPrice ==
    /\ buy_idx < Len(buy_orders)
    /\ sell_idx < Len(sell_orders)
    /\ ~(buy_orders[buy_idx + 1].order.price <= sell_orders[sell_idx + 1].order.price)

\* The loop without its break on the prices.
LoopIgnoresPrice ==
    /\ buy_idx < Len(buy_orders)
    /\ sell_idx < Len(sell_orders)

\* The while condition and the break of the crossing loop.
LoopContinues ==
    /\ buy_idx < Len(buy_orders)
    /\ sell_idx < Len(sell_orders)
    /\ ~(buy_orders[buy_idx + 1].order.price < sell_orders[sell_idx + 1].order.price)

\* MakerTaker with the newer order as maker.
MakerTakerNewer(buy, sell) ==
    IF buy.order.nonce > sell.order.nonce
    THEN [maker |-> buy, taker |-> sell, maker_is_seller |-> FALSE]
    ELSE [maker |-> sell, taker |-> buy, maker_is_seller |-> TRUE]

\* (maker, taker, maker_is_seller) of the pair at the cursors.
MakerTaker(buy, sell) ==
    IF buy.order.nonce < sell.order.nonce
    THEN [maker |-> buy, taker |-> sell, maker_is_seller |-> FALSE]
    ELSE [maker |-> sell, taker |-> buy, maker_is_seller |-> TRUE]

\* The fill stops one unit short of the smaller quantity.
fill_qty_one_short(buy, sell) == Min(buy.order.quantity, sell.order.quantity) - 1

\* The fill takes the whole buy quantity.
fill_qty_of_buy(buy, sell) == buy.order.quantity

fill_qty(buy, sell) == Min(buy.order.quantity, sell.order.quantity)

\* Fill executed at the taker's price.
FillAtTakerPrice(buy, sell) ==
    LET mt == MakerTaker(buy, sell)
    IN [maker_utxo_id |-> mt.maker.utxo_id,
        taker_utxo_id |-> mt.taker.utxo_id,
        price |-> mt.taker.order.price,
        quantity |-> fill_qty(buy, sell),
        maker |-> mt.maker.order.owner,
        taker |-> mt.taker.order.owner,
        maker_is_seller |-> mt.maker_is_seller]

Fill(buy, sell) ==
    LET mt == MakerTaker(buy, sell)
    IN [maker_utxo_id |-> mt.maker.utxo_id,
        taker_utxo_id |-> mt.taker.utxo_id,
        price |-> mt.maker.order.price,
        quantity |-> fill_qty(buy, sell),
        maker |-> mt.maker.order.owner,
        taker |-> mt.taker.order.owner,
        maker_is_seller |-> mt.maker_is_seller]

\* The id pushed whatever is left of the entry.
ConsumedAlways(entry, remaining) == <<entry.utxo_id>>

\* The id pushed to consumed_utxo_ids for an entry the fill leaves with
\* `remaining`: its pre-match id when nothing is left, none otherwise.
ConsumedIfFilled(entry, remaining) ==
    IF remaining = 0 THEN <<entry.utxo_id>> ELSE <<>>

\* One iteration of the crossing loop that emits a fill.
Cross ==
    /\ pc = "match"
    /\ LoopContinues
    /\ LET buy == buy_orders[buy_idx + 1]
           sell == sell_orders[sell_idx + 1]
           qty == fill_qty(buy, sell)
           buy_remaining == buy.order.quantity - qty
           sell_remaining == sell.order.quantity - qty
           consumed_buy == ConsumedIfFilled(buy, buy_remaining)
           consumed_sell == ConsumedIfFilled(sell, sell_remaining)
       IN /\ fills' = Append(fills, Fill(buy, sell))
          /\ consumed_utxo_ids' = consumed_utxo_ids \o consumed_buy \o consumed_sell
          /\ IF buy_remaining = 0
             THEN /\ buy_idx' = buy_idx + 1
                  /\ UNCHANGED buy_orders
             ELSE /\ buy_orders' =
                        [buy_orders EXCEPT ![buy_idx + 1].order.quantity = buy_remaining]
                  /\ UNCHANGED buy_idx
          /\ IF sell_remaining = 0
             THEN /\ sell_idx' = sell_idx + 1
                  /\ UNCHANGED sell_orders
             ELSE /\ sell_orders' =
                        [sell_orders EXCEPT ![sell_idx + 1].order.quantity = sell_remaining]
                  /\ UNCHANGED sell_idx
    /\ UNCHANGED <<input, pc, ei, ni, new_utxos, new_utxo_merkle_root, prev, guest>>

\* The residuals of a book collected from its end.
ResidualsReversed(book, idx) ==
    [i \in 1..(Len(book) - idx) |-> UtxoNew(book[Len(book) + 1 - i].order)]

\* Entries of a book from the cursor onward, each as a fresh Utxo.
Residuals(book, idx) ==
    [i \in 1..(Len(book) - idx) |-> UtxoNew(book[idx + i].order)]

\* The ids listed from the last UTXO to the first.
UtxoIdsReversed(utxos) == [i \in 1..Len(utxos) |-> utxos[Len(utxos) + 1 - i].id]

UtxoIds(utxos) == [i \in 1..Len(utxos) |-> utxos[i].id]

\* The loop is left; residuals are collected, the root computed, the output returned.
Finish ==
    /\ pc = "match"
    /\ ~LoopContinues
    /\ new_utxos' = Residuals(buy_orders, buy_idx) \o Residuals(sell_orders, sell_idx)
    /\ new_utxo_merkle_root' = compute_utxo_merkle_root(UtxoIds(new_utxos'))
    /\ pc' = "done"
    /\ UNCHANGED <<input, ei, ni, buy_orders, sell_orders, consumed_utxo_ids,
                   fills, buy_idx, sell_idx, prev, guest>>

Next == ProcessExisting \/ ProcessNew \/ SortBooks \/ Cross \/ Finish

Spec == Init /\ [][Next]_vars

\* match_orders runs on one thread from its call to its return: an iteration
\* of the crossing loop that can run does run, and so does the code after it.
SpecLive == Spec /\ WF_vars(Cross) /\ WF_vars(Finish)

---------------------------------------------------------------------------
(* A second call of match_orders on the same batch with its lists reordered *)

BatchOutput ==
    [batch_index |-> input.batch_index,
     fills |-> fills,
     new_utxos |-> new_utxos,
     consumed_utxo_ids |-> consumed_utxo_ids,
     new_utxo_merkle_root |-> new_utxo_merkle_root]

IndexPermutations(n) == {f \in [1..n -> 1..n] : \A i, j \in 1..n : f[i] = f[j] => i = j}

Permuted(s, f) == [i \in 1..Len(s) |-> s[f[i]]]

\* The returned output is kept and match_orders is called again on the input
\* with existing_utxos_with_proofs and new_orders permuted, every element
\* keeping its own proof and leaf_index.
Resubmit ==
    /\ pc = "done"
    /\ prev = NoOutput
    /\ prev' = BatchOutput
    /\ \E f \in IndexPermutations(Len(input.existing_utxos_with_proofs)),
          g \in IndexPermutations(Len(input.new_orders)) :
          /\ input' = [input EXCEPT
                          !.existing_utxos_with_proofs = Permuted(@, f),
                          !.new_orders = Permuted(@, g)]
          /\ input' # input
    /\ pc' = "intake"
    /\ ei' = 0
    /\ ni' = 0
    /\ buy_orders' = <<>>
    /\ sell_orders' = <<>>
    /\ consumed_utxo_ids' = <<>>
    /\ fills' = <<>>
    /\ buy_idx' = 0
    /\ sell_idx' = 0
    /\ new_utxos' = <<>>
    /\ new_utxo_merkle_root' = ZERO
    /\ UNCHANGED guest

NextPerm == Next \/ Resubmit

SpecPerm == Init /\ [][NextPerm]_vars

---------------------------------------------------------------------------
(* Scenario S6: cascading cross *)

S6Buy(owner, expiry) ==
    [side |-> "Buy", price |-> 105, quantity |-> 100, owner |-> owner,
     nonce |-> 1, expiry_batch |-> expiry]

S6SellLow(owner, expiry) ==
    [side |-> "Sell", price |-> 99, quantity |-> 75, owner |-> owner,
     nonce |-> 2, expiry_batch |-> expiry]

S6SellHigh(owner, expiry) ==
    [side |-> "Sell", price |-> 101, quantity |-> 150, owner |-> owner,
     nonce |-> 3, expiry_batch |-> expiry]

\* The three orders of S6 in any input order, with any owners and any expiry
\* that keeps them alive in batch 1.
InitS6 ==
    /\ \E owner \in [1..3 -> Owners], expiry \in [1..3 -> 1..(MaxBatch + 1)] :
         \E order \in {f \in [1..3 -> 1..3] : \A i, j \in 1..3 : f[i] = f[j] => i = j} :
            LET orders == <<S6Buy(owner[1], expiry[1]),
                            S6SellLow(owner[2], expiry[2]),
                            S6SellHigh(owner[3], expiry[3])>>
            IN Start(BatchInput(1, ZERO, <<>>, [i \in 1..3 |-> orders[order[i]]]))
    /\ prev = NoOutput
    /\ NoGuest

NextS6 == ProcessNew \/ SortBooks \/ Cross \/ Finish

SpecS6 == InitS6 /\ [][NextS6]_vars

---------------------------------------------------------------------------
(* The guest program: guests/order-book/src/main.rs *)

MaxSideByte == 2

\* From<&Order> for SolOrder.
ToSolOrder(order) ==
    [side |-> SideByte(order.side), price |-> order.price,
     quantity |-> order.quantity, owner |-> order.owner, nonce |-> order.nonce,
     expiryBatch |-> order.expiry_batch]

\* From<&SolOrder> for Order: side byte 0 is Buy, every other byte is Sell.
FromSolOrder(sol) ==
    [side |-> IF sol.side = 0 THEN "Buy" ELSE "Sell", price |-> sol.price,
     quantity |-> sol.quantity, owner |-> sol.owner, nonce |-> sol.nonce,
     expiry_batch |-> sol.expiryBatch]

\* From<&Utxo> for SolUtxo.
ToSolUtxo(utxo) ==
    [id |-> utxo.id, side |-> SideByte(utxo.order.side), price |-> utxo.order.price,
     quantity |-> utxo.order.quantity, owner |-> utxo.order.owner,
     nonce |-> utxo.order.nonce, expiryBatch |-> utxo.order.expiry_batch]

\* From<&Fill> for SolFill.
ToSolFill(fill) ==
    [makerUtxoId |-> fill.maker_utxo_id, takerUtxoId |-> fill.taker_utxo_id,
     price |-> fill.price, quantity |-> fill.quantity, maker |-> fill.maker,
     taker |-> fill.taker, makerIsSeller |-> fill.maker_is_seller]

\* From<&UtxoWithProof> for SolUtxoWithProof.
ToSolUtxoWithProof(uwp) ==
    [id |-> uwp.utxo.id, side |-> SideByte(uwp.utxo.order.side),
     price |-> uwp.utxo.order.price, quantity |-> uwp.utxo.order.quantity,
     owner |-> uwp.utxo.order.owner, nonce |-> uwp.utxo.order.nonce,
     expiryBatch |-> uwp.utxo.order.expiry_batch,
     proofHashes |-> uwp.proof_hashes, leafIndex |-> uwp.leaf_index]

\* From<&SolUtxoWithProof> for UtxoWithProof.
FromSolUtxoWithProof(sol) ==
    [utxo |-> [id |-> sol.id, order |-> FromSolOrder(sol)],
     proof_hashes |-> sol.proofHashes,
     leaf_index |-> sol.leafIndex]

\* BatchInput::to_sol, as the host encodes the input for the guest.
to_sol(in) ==
    [batchIndex |-> in.batch_index,
     utxoMerkleRoot |-> in.utxo_merkle_root,
     existingUtxosWithProofs |->
        [i \in 1..Len(in.existing_utxos_with_proofs) |->
            ToSolUtxoWithProof(in.existing_utxos_with_proofs[i])],
     newOrders |-> [i \in 1..Len(in.new_orders) |-> ToSolOrder(in.new_orders[i])]]

\* BatchInput::from_sol.
from_sol(sol) ==
    BatchInput(sol.batchIndex, sol.utxoMerkleRoot,
               [i \in 1..Len(sol.existingUtxosWithProofs) |->
                   FromSolUtxoWithProof(sol.existingUtxosWithProofs[i])],
               [i \in 1..Len(sol.newOrders) |-> FromSolOrder(sol.newOrders[i])])

\* BatchOutput::to_journal.
to_journal(output, commitment) ==
    [steelCommitment |-> commitment,
     batchIndex |-> output.batch_index,
     fills |-> [i \in 1..Len(output.fills) |-> ToSolFill(output.fills[i])],
     newUtxos |-> [i \in 1..Len(output.new_utxos) |-> ToSolUtxo(output.new_utxos[i])],
     consumedUtxoIds |-> output.consumed_utxo_ids,
     newUtxoMerkleRoot |-> output.new_utxo_merkle_root]

\* Wire orders of one owner, live, with a positive quantity and any side byte.
SolCoreOrders ==
    [side : 0..MaxSideByte, price : 1..MaxPrice, quantity : 1..MaxQty,
     owner : {"A"}, nonce : 1..MaxNonce, expiryBatch : {MaxBatch}]

\* A root the contract holds that is not the one the input was built against.
OtherRoot(root) == <<root, root>>

\* The guest has read its inputs and decoded the SolBatchInput; match_orders
\* has not been called.
GuestStart(sol, root, batch) ==
    /\ gpc = "query_root"
    /\ sol_input = sol
    /\ contract = [utxoMerkleRoot |-> root, currentBatchIndex |-> batch]
    /\ on_chain_merkle_root = Unread
    /\ on_chain_batch_index = Unread
    /\ journal = NoJournal
    /\ input = <<>>
    /\ pc = "idle"
    /\ ei = 0
    /\ ni = 0
    /\ buy_orders = <<>>
    /\ sell_orders = <<>>
    /\ consumed_utxo_ids = <<>>
    /\ fills = <<>>
    /\ buy_idx = 0
    /\ sell_idx = 0
    /\ new_utxos = <<>>
    /\ new_utxo_merkle_root = ZERO
    /\ prev = NoOutput

\* Guest inputs without existing UTXOs, or built by the host against a
\* committed set; the contract holds the input's root and batch index or others.
InitGuest ==
    \E b \in 1..MaxBatch, cb \in 1..(MaxBatch + 1), stale \in BOOLEAN :
        \/ \E n \in 0..(MaxNew - 1) :
              \E orders \in [1..n -> SolCoreOrders] :
                 GuestStart([batchIndex |-> b, utxoMerkleRoot |-> ZERO,
                             existingUtxosWithProofs |-> <<>>, newOrders |-> orders],
                            IF stale THEN OtherRoot(ZERO) ELSE ZERO, cb)
        \/ \E k \in 1..MaxExisting :
              \E utxos \in [1..k -> CoreOrders], n \in 0..(MaxExisting - k) :
                 \E existing \in ExistingLists(utxos), orders \in [1..n -> SolCoreOrders] :
                    LET root == compute_utxo_merkle_root(ChainLeaves(utxos))
                        sol == to_sol(BatchInput(b, root, existing, <<>>))
                    IN GuestStart([sol EXCEPT !.newOrders = orders],
                                  IF stale THEN OtherRoot(root) ELSE root, cb)

\* contract.call_builder(utxoMerkleRootCall).call()
QueryMerkleRoot ==
    /\ gpc = "query_root"
    /\ on_chain_merkle_root' = contract.utxoMerkleRoot
    /\ gpc' = "query_batch"
    /\ UNCHANGED <<input, pc, ei, ni, buy_orders, sell_orders, consumed_utxo_ids,
                   fills, buy_idx, sell_idx, new_utxos, new_utxo_merkle_root, prev,
                   sol_input, contract, on_chain_batch_index, journal>>

\* contract.call_builder(currentBatchIndexCall).call()
QueryBatchIndex ==
    /\ gpc = "query_batch"
    /\ on_chain_batch_index' = contract.currentBatchIndex
    /\ gpc' = "assert_root"
    /\ UNCHANGED <<input, pc, ei, ni, buy_orders, sell_orders, consumed_utxo_ids,
                   fills, buy_idx, sell_idx, new_utxos, new_utxo_merkle_root, prev,
                   sol_input, contract, on_chain_merkle_root, journal>>

\* assert_eq!(sol_input.utxoMerkleRoot, on_chain_merkle_root)
AssertMerkleRoot ==
    /\ gpc = "assert_root"
    /\ gpc' = IF sol_input.utxoMerkleRoot = on_chain_merkle_root
              THEN "assert_batch" ELSE "panicked"
    /\ UNCHANGED <<input, pc, ei, ni, buy_orders, sell_orders, consumed_utxo_ids,
                   fills, buy_idx, sell_idx, new_utxos, new_utxo_merkle_root, prev,
                   sol_input, contract, on_chain_merkle_root, on_chain_batch_index,
                   journal>>

\* The batch index left unchecked.
BatchIndexUnchecked == TRUE

\* The condition of assert_eq!(sol_input.batchIndex, on_chain_batch_index).
BatchIndexAsserted == sol_input.batchIndex = on_chain_batch_index

AssertBatchIndex ==
    /\ gpc = "assert_batch"
    /\ gpc' = IF BatchIndexAsserted THEN "convert" ELSE "panicked"
    /\ UNCHANGED <<input, pc, ei, ni, buy_orders, sell_orders, consumed_utxo_ids,
                   fills, buy_idx, sell_idx, new_utxos, new_utxo_merkle_root, prev,
                   sol_input, contract, on_chain_merkle_root, on_chain_batch_index,
                   journal>>

\* BatchInput::from_sol and the call of match_orders.
CallMatchOrders ==
    /\ gpc = "convert"
    /\ input' = from_sol(sol_input)
    /\ pc' = "intake"
    /\ gpc' = "match_orders"
    /\ UNCHANGED <<ei, ni, buy_orders, sell_orders, consumed_utxo_ids, fills,
                   buy_idx, sell_idx, new_utxos, new_utxo_merkle_root, prev,
                   sol_input, contract, on_chain_merkle_root, on_chain_batch_index,
                   journal>>

\* evm_env.into_commitment(): the commitment to the block the calls ran against.
into_commitment == [block |-> contract]

\* match_orders has returned: to_journal and env::commit_slice.
CommitJournal ==
    /\ gpc = "match_orders"
    /\ pc = "done"
    /\ journal' = to_journal(BatchOutput, into_commitment)
    /\ gpc' = "committed"
    /\ UNCHANGED <<input, pc, ei, ni, buy_orders, sell_orders, consumed_utxo_ids,
                   fills, buy_idx, sell_idx, new_utxos, new_utxo_merkle_root, prev,
                   sol_input, contract, on_chain_merkle_root, on_chain_batch_index>>

NextGuest ==
    \/ QueryMerkleRoot
    \/ QueryBatchIndex
    \/ AssertMerkleRoot
    \/ AssertBatchIndex
    \/ CallMatchOrders
    \/ Next
    \/ CommitJournal

SpecGuest == InitGuest /\ [][NextGuest]_vars

---------------------------------------------------------------------------
(* Claims *)

\* The step taken is an iteration of the crossing loop that emits a fill.
FillStep == pc = "match" /\ Len(fills') = Len(fills) + 1

LastFill(fs) == fs[Len(fs)]

\* C1: a fill emitted from a crossing pair (buy B, sell S) with distinct nonces
\* has the smaller-nonce order as maker and the other as taker, maker_is_seller
\* true exactly when the maker is S, the maker's price, the maker's and the
\* taker's owners, and the smaller of the two quantities at that moment.
C1_FillFromCrossingPair ==
    [][FillStep =>
        LET B == buy_orders[buy_idx + 1].order
            S == sell_orders[sell_idx + 1].order
            f == LastFill(fills')
            makerIsS == S.nonce < B.nonce
        IN B.nonce # S.nonce =>
             /\ f.maker_is_seller = makerIsS
             /\ f.price = (IF makerIsS THEN S.price ELSE B.price)
             /\ f.maker = (IF makerIsS THEN S.owner ELSE B.owner)
             /\ f.taker = (IF makerIsS THEN B.owner ELSE S.owner)
             /\ f.quantity <= B.quantity
             /\ f.quantity <= S.quantity
             /\ f.quantity \in {B.quantity, S.quantity}]_vars

\* A returned batch with a fill whose maker is the seller, at the lower price,
\* between two owners, and one whose maker is the buyer.
C1_Witness ==
    /\ pc = "done"
    /\ \E i \in 1..Len(fills) :
          /\ fills[i].maker_is_seller
          /\ fills[i].maker # fills[i].taker
          /\ fills[i].price < MaxPrice
          /\ fills[i].quantity = MaxQty

\* Entries of the books as the intake loops admit them.
AdmittedEntries ==
    {OrderEntry(input.existing_utxos_with_proofs[i].utxo) :
        i \in 1..Len(input.existing_utxos_with_proofs)}
    \cup {OrderEntry(UtxoNew(input.new_orders[i])) : i \in 1..Len(input.new_orders)}

\* a is at least as good a buy (sell) as b: better price, or equal price and
\* a nonce that is not larger.
AheadOf(side, a, b) ==
    \/ (IF side = "Buy" THEN a.order.price > b.order.price
                        ELSE a.order.price < b.order.price)
    \/ a.order.price = b.order.price /\ a.order.nonce <= b.order.nonce

\* C2: price-time priority. In every iteration of the crossing loop the buy in
\* the fill is the best-priced, then oldest, of the buys not yet fully filled,
\* and likewise the sell; the entries behind them have not been filled so far
\* and are not filled by this iteration, and a cursor moves on only from an
\* entry the fill has used up.
C2_PriceTimePriority ==
    [][FillStep =>
        LET bh == buy_idx + 1
            sh == sell_idx + 1
            B == buy_orders[bh]
            S == sell_orders[sh]
            f == LastFill(fills')
        IN /\ {f.maker_utxo_id, f.taker_utxo_id} = {B.utxo_id, S.utxo_id}
           /\ \A j \in bh..Len(buy_orders) : AheadOf("Buy", B, buy_orders[j])
           /\ \A j \in sh..Len(sell_orders) : AheadOf("Sell", S, sell_orders[j])
           /\ \A j \in (bh + 1)..Len(buy_orders) :
                 buy_orders[j] \in AdmittedEntries /\ buy_orders'[j] = buy_orders[j]
           /\ \A j \in (sh + 1)..Len(sell_orders) :
                 sell_orders[j] \in AdmittedEntries /\ sell_orders'[j] = sell_orders[j]
           /\ buy_idx' \in {buy_idx, buy_idx + 1}
           /\ sell_idx' \in {sell_idx, sell_idx + 1}
           /\ buy_idx' # buy_idx => f.quantity = B.order.quantity
           /\ sell_idx' # sell_idx => f.quantity = S.order.quantity]_vars

\* Two buys at one price with nonces 1 and 3 against a sell with nonce 2 of the
\* same price and quantity: one fill, with the nonce-1 buy, and the nonce-3 buy
\* comes out as a new UTXO under its own id.
C2_Witness ==
    /\ pc = "done"
    /\ Len(buy_orders) = 2 /\ Len(sell_orders) = 1
    /\ buy_orders[1].order.nonce = 1 /\ buy_orders[2].order.nonce = 3
    /\ sell_orders[1].order.nonce = 2
    /\ buy_orders[1].order.price = buy_orders[2].order.price
    /\ buy_orders[1].order.price = sell_orders[1].order.price
    /\ buy_orders[1].order.quantity = sell_orders[1].order.quantity
    /\ buy_orders[2].order.quantity = sell_orders[1].order.quantity
    /\ Len(fills) = 1
    /\ fills[1].maker_utxo_id = buy_orders[1].utxo_id
    /\ new_utxos = <<[id |-> buy_orders[2].utxo_id, order |-> buy_orders[2].order]>>

\* The output of S6 with the given first fill: that fill, then a fill at 105
\* for 25 with the nonce-1 buy as maker, and one new UTXO, the nonce-3 sell at
\* 101 with 125 left.
S6Output(firstPrice, firstMakerIsSeller) ==
    \E owner \in [1..3 -> Owners], expiry \in [1..3 -> 1..(MaxBatch + 1)] :
        LET buy == S6Buy(owner[1], expiry[1])
            low == S6SellLow(owner[2], expiry[2])
            high == S6SellHigh(owner[3], expiry[3])
            maker1 == IF firstMakerIsSeller THEN low ELSE buy
            taker1 == IF firstMakerIsSeller THEN buy ELSE low
        IN /\ {input.new_orders[i] : i \in 1..3} = {buy, low, high}
           /\ fills =
                <<[maker_utxo_id |-> compute_utxo_id(maker1),
                   taker_utxo_id |-> compute_utxo_id(taker1),
                   price |-> firstPrice, quantity |-> 75,
                   maker |-> maker1.owner, taker |-> taker1.owner,
                   maker_is_seller |-> firstMakerIsSeller],
                  [maker_utxo_id |-> compute_utxo_id(buy),
                   taker_utxo_id |-> compute_utxo_id(high),
                   price |-> 105, quantity |-> 25,
                   maker |-> buy.owner, taker |-> high.owner,
                   maker_is_seller |-> FALSE]>>
           /\ new_utxos = <<UtxoNew([high EXCEPT !.quantity = 125])>>

\* C3 as stated: scenario S6 returns exactly two fills, the first at 99 for 75
\* with the nonce-2 sell as maker, the second at 105 for 25 with the nonce-1
\* buy as maker, and exactly one new UTXO, the nonce-3 sell at 101 with 125 left.
C3_Original == pc = "done" => S6Output(99, TRUE)

\* C3 (amended): scenario S6 returns exactly two fills, the first at 105 for 75
\* with the nonce-1 buy as maker (it is older than the nonce-2 sell), the second
\* at 105 for 25 with the nonce-1 buy as maker, and exactly one new UTXO, the
\* nonce-3 sell at 101 with 125 left.
C3_CascadingCross == pc = "done" => S6Output(105, FALSE)

\* S6 has run to its output, from an input that lists the orders newest first.
C3_Witness ==
    /\ pc = "done"
    /\ Len(fills) = 2
    /\ input.new_orders[1].nonce = 3
    /\ input.new_orders[3].nonce = 1
    /\ input.existing_utxos_with_proofs = <<>>
    /\ input.batch_index = 1

Range(s) == {s[i] : i \in 1..Len(s)}

NoDuplicates(s) == \A i, j \in 1..Len(s) : s[i] = s[j] => i = j

Existing == input.existing_utxos_with_proofs

\* Ids of the existing UTXOs of the input that are expired in this batch.
ExpiredExistingIds ==
    {Existing[i].utxo.id : i \in {k \in 1..Len(Existing) :
                                    is_expired(Existing[k].utxo, input.batch_index)}}

\* Ids of the existing UTXOs of the input that are admitted to a book.
LiveExistingIds ==
    {Existing[i].utxo.id : i \in {k \in 1..Len(Existing) :
                                    ~is_expired(Existing[k].utxo, input.batch_index)}}

\* Book entries the cursors have passed: the fully filled ones.
FilledEntries ==
    {buy_orders[j] : j \in 1..buy_idx} \cup {sell_orders[j] : j \in 1..sell_idx}

\* Book entries from the cursors onward: the residuals.
ResidualEntries ==
    {buy_orders[j] : j \in (buy_idx + 1)..Len(buy_orders)}
    \cup {sell_orders[j] : j \in (sell_idx + 1)..Len(sell_orders)}

\* Orders of the input: those of the existing UTXOs, then the new ones.
InputOrders ==
    [i \in 1..Len(Existing) |-> Existing[i].utxo.order] \o input.new_orders

DistinctNonces ==
    \A i, j \in 1..Len(InputOrders) : InputOrders[i].nonce = InputOrders[j].nonce => i = j

\* An input that keeps the input invariants: positive quantities, pairwise
\* distinct nonces, every existing UTXO under the hash of its order.
WellFormedInput ==
    /\ DistinctNonces
    /\ \A i \in 1..Len(InputOrders) : InputOrders[i].quantity > 0
    /\ \A i \in 1..Len(Existing) :
          Existing[i].utxo.id = compute_utxo_id(Existing[i].utxo.order)

Count(s, x) == Cardinality({i \in 1..Len(s) : s[i] = x})

\* Ids of the expired existing UTXOs of the input, in input order.
RECURSIVE ExpiredIdsFrom(_)
ExpiredIdsFrom(s) ==
    IF s = <<>> THEN <<>>
    ELSE (IF is_expired(Head(s).utxo, input.batch_index) THEN <<Head(s).utxo.id>> ELSE <<>>)
         \o ExpiredIdsFrom(Tail(s))

\* C4 as stated: in every output, consumed_utxo_ids holds, without duplicates,
\* exactly the ids of the existing UTXOs removed by expiry or by full fill, and
\* no id of a UTXO created from a new order of the batch. Stated for inputs that
\* keep the input invariants.
C4_Original ==
    (pc = "done" /\ WellFormedInput) =>
        /\ NoDuplicates(consumed_utxo_ids)
        /\ Range(consumed_utxo_ids) =
              ExpiredExistingIds
              \cup {e.utxo_id : e \in {x \in FilledEntries : x.utxo_id \in LiveExistingIds}}

\* C4 (amended): in every output, consumed_utxo_ids holds one occurrence of the
\* id of every expired existing UTXO, in input order, then one occurrence of
\* the pre-match id of every book entry the batch fully filled, whether the
\* entry came from an existing UTXO or from a new order of the batch, and no
\* other id.
C4_ConsumedIds ==
    pc = "done" =>
        LET expired == ExpiredIdsFrom(Existing)
            k == Len(expired)
            filled == SubSeq(consumed_utxo_ids, k + 1, Len(consumed_utxo_ids))
        IN /\ SubSeq(consumed_utxo_ids, 1, k) = expired
           /\ Len(consumed_utxo_ids) = k + buy_idx + sell_idx
           /\ \A id \in Range(filled) \cup {e.utxo_id : e \in FilledEntries} :
                 Count(filled, id) =
                    Cardinality({j \in 1..buy_idx : buy_orders[j].utxo_id = id})
                    + Cardinality({j \in 1..sell_idx : sell_orders[j].utxo_id = id})

\* An output for an input that keeps the input invariants, in which an
\* existing UTXO and a new order have filled each other completely: both ids
\* are in consumed_utxo_ids.
C4_Witness ==
    /\ pc = "done"
    /\ WellFormedInput
    /\ Len(Existing) = 1
    /\ Len(input.new_orders) = 1
    /\ Len(fills) = 1
    /\ consumed_utxo_ids \in
          {<<Existing[1].utxo.id, compute_utxo_id(input.new_orders[1])>>,
           <<compute_utxo_id(input.new_orders[1]), Existing[1].utxo.id>>}

\* C5: in every output, no id is both in consumed_utxo_ids and the id of a UTXO
\* of new_utxos.
C5_ConsumedDisjointFromNew ==
    pc = "done" => Range(consumed_utxo_ids) \cap Range(UtxoIds(new_utxos)) = {}

\* C6: every fill of a returned output has a strictly positive quantity.
C6_FillQuantityPositive ==
    pc = "done" => \A i \in 1..Len(fills) : fills[i].quantity > 0

\* C7: in every output, a partially filled entry left with a positive quantity
\* is in new_utxos under the id of its reduced order, its pre-match id is in
\* consumed_utxo_ids exactly if it came from an existing UTXO, and so every
\* existing UTXO admitted to a book has its id in new_utxos or in
\* consumed_utxo_ids. Stated for inputs that keep the input invariants.
C7_PartialFillBookkeeping ==
    (pc = "done" /\ WellFormedInput) =>
        /\ \A e \in ResidualEntries :
              (e \notin AdmittedEntries /\ e.order.quantity > 0) =>
                 /\ UtxoNew(e.order) \in Range(new_utxos)
                 /\ e.utxo_id \in Range(consumed_utxo_ids) <=> e.utxo_id \in LiveExistingIds
        /\ \A id \in LiveExistingIds :
              id \in Range(UtxoIds(new_utxos)) \/ id \in Range(consumed_utxo_ids)

\* C8: every existing UTXO admitted to a book and every UTXO of new_utxos has
\* id = H(order), and an element whose id verifies while its order fields do
\* not hash to the id takes part in no fill.
C8_IdIsHashOfOrder ==
    /\ pc = "intake" =>
          \A e \in Range(buy_orders) \cup Range(sell_orders) :
              e.utxo_id = compute_utxo_id(e.order)
    /\ \A i \in 1..Len(new_utxos) : new_utxos[i].id = compute_utxo_id(new_utxos[i].order)
    /\ \A i \in 1..Len(Existing) :
          Existing[i].utxo.id # compute_utxo_id(Existing[i].utxo.order) =>
              \A k \in 1..Len(fills) :
                  Existing[i].utxo.id \notin {fills[k].maker_utxo_id, fills[k].taker_utxo_id}

\* C10: when an element of existing_utxos_with_proofs fails verification against
\* the prior root with total_leaves = the number of elements, the run never gets
\* past that element: nothing after it is admitted, no new order is taken in,
\* and no fill, new UTXO or root is produced.
C10_InvalidProofAborts ==
    \A i \in 1..Len(Existing) :
        ~verify(Existing[i], input.utxo_merkle_root, Len(Existing)) =>
            /\ pc \in {"intake", "panicked"}
            /\ ei < i
            /\ ni = 0
            /\ fills = <<>>
            /\ new_utxos = <<>>
            /\ new_utxo_merkle_root = ZERO

\* The run has aborted on the second element, after the first one verified
\* and, being expired, had its id put in consumed_utxo_ids.
C10_Witness ==
    /\ pc = "panicked"
    /\ ei = 1
    /\ Len(consumed_utxo_ids) = 1
    /\ verify(Existing[1], input.utxo_merkle_root, Len(Existing))
    /\ ~verify(Existing[2], input.utxo_merkle_root, Len(Existing))

\* The run on the permuted input has returned, the run before it is kept.
BothReturned == pc = "done" /\ prev # NoOutput /\ DistinctNonces

\* C9 as stated: with pairwise distinct nonces, the output for a permuted input
\* is identical to the output for the input: fills, new_utxos,
\* consumed_utxo_ids and root.
C9_Original == BothReturned => BatchOutput = prev

\* C9 (amended): with pairwise distinct nonces, the output for a permuted input
\* has the same batch index, fills, new_utxos and root; consumed_utxo_ids
\* starts with the ids of the expired existing UTXOs in the order the input
\* lists them, the same ids as before the permutation in a possibly different
\* order, and continues with the same ids in the same order.
C9_InputOrderIndependence ==
    BothReturned =>
        LET expired == ExpiredIdsFrom(Existing)
            k == Len(expired)
            now == consumed_utxo_ids
            before == prev.consumed_utxo_ids
        IN /\ prev.batch_index = input.batch_index
           /\ prev.fills = fills
           /\ prev.new_utxos = new_utxos
           /\ prev.new_utxo_merkle_root = new_utxo_merkle_root
           /\ Len(before) = Len(now)
           /\ SubSeq(now, 1, k) = expired
           /\ \A i \in 1..k : Count(SubSeq(before, 1, k), now[i]) = Count(expired, now[i])
           /\ SubSeq(before, k + 1, Len(before)) = SubSeq(now, k + 1, Len(now))

\* A permuted input with distinct nonces has returned, after two fills and
\* with a residual.
C9_Witness ==
    /\ BothReturned
    /\ Len(fills) = 2
    /\ new_utxos # <<>>
    /\ consumed_utxo_ids # <<>>

\* C11: the guest commits a journal only after it has read the on-chain root
\* and batch index, both equal the input's utxoMerkleRoot and batchIndex, and
\* match_orders has returned; while either value differs from the contract's,
\* match_orders is never called and no journal is committed; a committed
\* journal carries the input's batch index and the output of match_orders.
C11_JournalAfterStateBinding ==
    /\ journal # NoJournal =>
          /\ on_chain_merkle_root = contract.utxoMerkleRoot
          /\ on_chain_batch_index = contract.currentBatchIndex
          /\ sol_input.utxoMerkleRoot = contract.utxoMerkleRoot
          /\ sol_input.batchIndex = contract.currentBatchIndex
          /\ pc = "done"
          /\ journal.batchIndex = sol_input.batchIndex
          /\ journal.consumedUtxoIds = consumed_utxo_ids
          /\ journal.newUtxoMerkleRoot = new_utxo_merkle_root
          /\ Len(journal.fills) = Len(fills)
          /\ Len(journal.newUtxos) = Len(new_utxos)
    /\ (\/ sol_input.utxoMerkleRoot # contract.utxoMerkleRoot
        \/ sol_input.batchIndex # contract.currentBatchIndex) =>
          /\ journal = NoJournal
          /\ pc = "idle"
          /\ gpc # "committed"
    /\ pc # "idle" =>
          /\ gpc \in {"match_orders", "committed"}
          /\ on_chain_merkle_root = contract.utxoMerkleRoot
          /\ on_chain_batch_index = contract.currentBatchIndex
    /\ pc = "panicked" => journal = NoJournal

\* The guest has committed the journal of a batch with an existing UTXO and a
\* fill.
C11_Witness ==
    /\ gpc = "committed"
    /\ journal # NoJournal
    /\ Len(journal.fills) > 0
    /\ Len(sol_input.existingUtxosWithProofs) > 0

\* C13: a wire order whose side byte is neither 0 nor 1 is never decoded into
\* an Order: from_sol does not return for an input that holds one.
C13_SideByteDecoding ==
    pc # "idle" =>
        \A i \in 1..Len(sol_input.newOrders) : sol_input.newOrders[i].side \in {0, 1}

\* C12: an input with a zero-quantity order, two orders sharing a nonce or two
\* existing elements with the same UTXO id is fatal: match_orders returns no
\* output for it.
C12_InputInvariantFatal ==
    pc = "done" =>
        /\ \A i \in 1..Len(InputOrders) : InputOrders[i].quantity > 0
        /\ DistinctNonces
        /\ NoDuplicates([i \in 1..Len(Existing) |-> Existing[i].utxo.id])

\* C14: new_utxos is the buy book from the final buy cursor onward, in book
\* order (price descending, nonce ascending among equal prices), followed by
\* the sell book from the final sell cursor onward, in book order (price
\* ascending, nonce ascending among equal prices).
C14_EmissionOrder ==
    pc = "done" =>
        LET nb == Len(buy_orders) - buy_idx
            ns == Len(sell_orders) - sell_idx
            b(i) == new_utxos[i].order
            a(i) == new_utxos[nb + i].order
        IN /\ Len(new_utxos) = nb + ns
           /\ \A i \in 1..nb :
                 b(i) = buy_orders[buy_idx + i].order /\ b(i).side = "Buy"
           /\ \A i \in 1..ns :
                 a(i) = sell_orders[sell_idx + i].order /\ a(i).side = "Sell"
           /\ \A i, j \in 1..nb :
                 i < j => \/ b(i).price > b(j).price
                          \/ b(i).price = b(j).price /\ b(i).nonce <= b(j).nonce
           /\ \A i, j \in 1..ns :
                 i < j => \/ a(i).price < a(j).price
                          \/ a(i).price = a(j).price /\ a(i).nonce <= a(j).nonce

\* An output without fills that carries two buys at one price, listed in the
\* input after the sell and from the newer to the older, and then the sell.
C14_Witness ==
    /\ pc = "done"
    /\ fills = <<>>
    /\ Len(new_utxos) = 3
    /\ new_utxos[1].order = input.new_orders[3]
    /\ new_utxos[2].order = input.new_orders[2]
    /\ new_utxos[3].order = input.new_orders[1]
    /\ new_utxos[1].order.price = new_utxos[2].order.price
    /\ new_utxos[1].order.nonce < new_utxos[2].order.nonce
    /\ new_utxos[1].order.side = "Buy"
    /\ new_utxos[2].order.side = "Buy"
    /\ new_utxos[3].order.side = "Sell"

\* C15: in every output new_utxo_merkle_root is the Merkle root over the ids of
\* new_utxos in their emitted order, and the all-zero value when new_utxos is
\* empty.
C15_RootOverNewUtxos ==
    pc = "done" =>
        LET ids == [i \in 1..Len(new_utxos) |-> new_utxos[i].id]
        IN new_utxo_merkle_root = (IF ids = <<>> THEN ZERO ELSE MerkleRootOf(ids))

\* An exact cross has consumed every order of the batch: the root is all-zero.
C15_Witness ==
    /\ pc = "done"
    /\ fills # <<>>
    /\ new_utxos = <<>>
    /\ Len(consumed_utxo_ids) = Len(InputOrders)
    /\ new_utxo_merkle_root = ZERO

\* Book entries of the input elements as the intake loops build them: the
\* existing UTXOs, then the new orders.
InputEntries ==
    [i \in 1..Len(Existing) |-> OrderEntry(Existing[i].utxo)]
    \o [i \in 1..Len(input.new_orders) |-> OrderEntry(UtxoNew(input.new_orders[i]))]

\* The step appends entry to the book of side and leaves the other book alone.
Admits(side, entry) ==
    IF side = "Buy"
    THEN buy_orders' = Append(buy_orders, entry) /\ UNCHANGED sell_orders
    ELSE sell_orders' = Append(sell_orders, entry) /\ UNCHANGED buy_orders

\* C16: an order is expired in batch b exactly when expiry_batch < b. The
\* intake of an expired existing UTXO appends its id to consumed_utxo_ids and
\* admits nothing to a book; the intake of an expired new order changes neither
\* a book nor consumed_utxo_ids; an element with expiry_batch >= b is admitted
\* to the book of its side. So every book entry, and with it every fill and
\* every UTXO of new_utxos, comes from an unexpired order: no UTXO of new_utxos
\* has expiry_batch < batch_index.
C16_ExpiryHandling ==
    [][/\ (pc = "intake" /\ ei' = ei + 1) =>
            LET utxo == Existing[ei + 1].utxo
            IN IF utxo.order.expiry_batch < input.batch_index
               THEN /\ consumed_utxo_ids' = Append(consumed_utxo_ids, utxo.id)
                    /\ UNCHANGED <<buy_orders, sell_orders>>
               ELSE /\ UNCHANGED consumed_utxo_ids
                    /\ Admits(utxo.order.side, OrderEntry(utxo))
       /\ (pc = "intake" /\ ni' = ni + 1) =>
            LET order == input.new_orders[ni + 1]
            IN /\ UNCHANGED consumed_utxo_ids
               /\ IF order.expiry_batch < input.batch_index
                  THEN UNCHANGED <<buy_orders, sell_orders>>
                  ELSE Admits(order.side, OrderEntry(UtxoNew(order)))
       /\ \A e \in Range(buy_orders') \cup Range(sell_orders') :
             e.order.expiry_batch >= input.batch_index
       /\ \A k \in 1..Len(fills') :
             {fills'[k].maker_utxo_id, fills'[k].taker_utxo_id}
                \subseteq {e.utxo_id : e \in Range(buy_orders') \cup Range(sell_orders')}
       /\ \A i \in 1..Len(new_utxos') :
             new_utxos'[i].order.expiry_batch >= input.batch_index]_vars

\* An output for two existing UTXOs: the first expired one batch ago, its id
\* the only consumed one; the second expiring in this batch, carried over.
C16_Witness ==
    /\ pc = "done"
    /\ Len(Existing) = 2
    /\ Existing[1].utxo.order.expiry_batch = input.batch_index - 1
    /\ Existing[2].utxo.order.expiry_batch = input.batch_index
    /\ consumed_utxo_ids = <<Existing[1].utxo.id>>
    /\ new_utxos = <<Existing[2].utxo>>

\* C17: match_orders returns an output only when existing_utxos_with_proofs
\* accounts for the set under the prior root: with a prior root that is not the
\* all-zero root, no output is returned for an empty existing_utxos_with_proofs.
C17_CommittedSetAccounted ==
    (pc = "done" /\ input.utxo_merkle_root # ZERO) => Existing # <<>>

\* C18: in every output, every buy UTXO of new_utxos has a price strictly below
\* that of every sell UTXO of new_utxos.
C18_NoCrossingRemains ==
    pc = "done" =>
        \A i, j \in 1..Len(new_utxos) :
            (new_utxos[i].order.side = "Buy" /\ new_utxos[j].order.side = "Sell")
                => new_utxos[i].order.price < new_utxos[j].order.price

\* An output with a fill at the top price that leaves a buy below a sell.
C18_Witness ==
    /\ pc = "done"
    /\ Len(fills) = 1
    /\ fills[1].price = MaxPrice
    /\ Len(new_utxos) = 2
    /\ new_utxos[1].order.side = "Buy"
    /\ new_utxos[2].order.side = "Sell"
    /\ new_utxos[1].order.price < new_utxos[2].order.price

RECURSIVE SumSeq(_)
SumSeq(s) == IF s = <<>> THEN 0 ELSE Head(s) + SumSeq(Tail(s))

Live(entry) == entry.order.expiry_batch >= input.batch_index

\* Quantity the unexpired input elements under id bring into the books.
InputQtyOf(id) ==
    SumSeq([i \in 1..Len(InputEntries) |->
              IF InputEntries[i].utxo_id = id /\ Live(InputEntries[i])
              THEN InputEntries[i].order.quantity ELSE 0])

\* Quantity of the fills that name id as maker or as taker.
FilledQtyOf(id) ==
    SumSeq([k \in 1..Len(fills) |->
              (IF fills[k].maker_utxo_id = id THEN fills[k].quantity ELSE 0)
              + (IF fills[k].taker_utxo_id = id THEN fills[k].quantity ELSE 0)])

\* Quantity of the UTXOs of new_utxos that are residuals of book entries
\* admitted under id: the buy residuals come first, then the sell residuals.
ResidualQtyOf(id) ==
    LET nb == Len(buy_orders) - buy_idx
        ns == Len(sell_orders) - sell_idx
    IN SumSeq([i \in 1..nb |->
                 IF buy_orders[buy_idx + i].utxo_id = id
                 THEN new_utxos[i].order.quantity ELSE 0])
       + SumSeq([i \in 1..ns |->
                 IF sell_orders[sell_idx + i].utxo_id = id
                 THEN new_utxos[nb + i].order.quantity ELSE 0])

\* Quantity the unexpired input orders of side bring in, less what new_utxos
\* carries over on that side.
FilledOnSide(side) ==
    SumSeq([i \in 1..Len(InputEntries) |->
              IF InputEntries[i].order.side = side /\ Live(InputEntries[i])
              THEN InputEntries[i].order.quantity ELSE 0])
    - SumSeq([i \in 1..Len(new_utxos) |->
              IF new_utxos[i].order.side = side
              THEN new_utxos[i].order.quantity ELSE 0])

\* C19: in every output, for every unexpired input order the input quantity
\* is the sum of the quantities of the fills that name its id plus its
\* residual quantity in new_utxos (summed over the input elements that share
\* the id, if several do); no quantity in a book, a fill or new_utxos is
\* negative; and the total filled on the buy side equals the total filled on
\* the sell side, which is the sum of the fill quantities.
C19_QuantityConservation ==
    pc = "done" =>
        /\ Len(new_utxos) = (Len(buy_orders) - buy_idx) + (Len(sell_orders) - sell_idx)
        /\ \A i \in 1..Len(InputEntries) :
              Live(InputEntries[i]) =>
                 InputQtyOf(InputEntries[i].utxo_id) =
                    FilledQtyOf(InputEntries[i].utxo_id)
                    + ResidualQtyOf(InputEntries[i].utxo_id)
        /\ \A e \in Range(buy_orders) \cup Range(sell_orders) : e.order.quantity >= 0
        /\ \A i \in 1..Len(new_utxos) : new_utxos[i].order.quantity >= 0
        /\ \A k \in 1..Len(fills) : fills[k].quantity >= 0
        /\ FilledOnSide("Buy") = FilledOnSide("Sell")
        /\ FilledOnSide("Buy") = SumSeq([k \in 1..Len(fills) |-> fills[k].quantity])

\* An output after two fills for an input that keeps the input invariants:
\* one order took part in both, and an order filled in part is carried over
\* with the rest of its quantity.
C19_Witness ==
    /\ pc = "done"
    /\ WellFormedInput
    /\ Len(fills) = 2
    /\ \E id \in {fills[1].maker_utxo_id, fills[1].taker_utxo_id} :
          /\ id \in {fills[2].maker_utxo_id, fills[2].taker_utxo_id}
          /\ FilledQtyOf(id) = InputQtyOf(id)
    /\ \E id \in {fills[2].maker_utxo_id, fills[2].taker_utxo_id} :
          /\ ResidualQtyOf(id) > 0
          /\ FilledQtyOf(id) > 0

\* C20: every fill between the buy B and the sell S at the cursors has
\* S.price <= fill.price <= B.price.
C20_PriceWithinLimits ==
    [][FillStep =>
        LET B == buy_orders[buy_idx + 1].order
            S == sell_orders[sell_idx + 1].order
            f == LastFill(fills')
        IN /\ {f.maker_utxo_id, f.taker_utxo_id} =
                 {buy_orders[buy_idx + 1].utxo_id, sell_orders[sell_idx + 1].utxo_id}
           /\ S.price <= f.price
           /\ f.price <= B.price]_vars

\* One fill between a buy at the top price and an older sell at the lowest
\* price: the fill is at the sell's price, below the buy's limit.
C20_Witness ==
    /\ pc = "done"
    /\ Len(fills) = 1
    /\ buy_orders[1].order.price = MaxPrice
    /\ sell_orders[1].order.price = 1
    /\ fills[1].price = 1
    /\ fills[1].maker_is_seller
    /\ fills[1].taker_utxo_id = buy_orders[1].utxo_id

\* C21: the crossing loop terminates. Every iteration that emits a fill moves
\* at least one of buy_idx and sell_idx forward; no step moves a cursor back;
\* a cursor never exceeds the length of its book; the number of fills is at
\* most |buy book| + |sell book| - 1 when both books are non-empty and 0
\* otherwise; and a run that has entered the loop reaches the return.
C21_CrossingLoopTerminates ==
    /\ [][/\ FillStep => (buy_idx' > buy_idx \/ sell_idx' > sell_idx)
          /\ buy_idx' >= buy_idx
          /\ sell_idx' >= sell_idx]_vars
    /\ [](/\ buy_idx <= Len(buy_orders)
          /\ sell_idx <= Len(sell_orders)
          /\ Len(fills) <= (IF buy_orders # <<>> /\ sell_orders # <<>>
                            THEN Len(buy_orders) + Len(sell_orders) - 1 ELSE 0))
    /\ (pc = "match") ~> (pc = "done")

\* An output with as many fills as the bound allows: one buy filled by two
\* sells, both cursors at the end of their books.
C21_Witness ==
    /\ pc = "done"
    /\ Len(buy_orders) = 1
    /\ Len(sell_orders) = 2
    /\ Len(fills) = Len(buy_orders) + Len(sell_orders) - 1
    /\ buy_idx = Len(buy_orders)
    /\ sell_idx = Len(sell_orders)

====
